---- MODULE Spec2Model ----
(***************************************************************************)
(* A model of melange's SBOM generator, pkg/sbom/implementation.go:        *)
(*                                                                         *)
(*   - ScanFiles: the directory walk, the digesting units run under the    *)
(*     concurrency limiter, the first-error slot, and the sorted           *)
(*     attachment of CONTAINS relationships (specification ScanSpec);      *)
(*   - WriteSBOM: buildDocumentSPDX (addPackage / addFile lowering of the  *)
(*     entity graph), ParseBuildSBOM (merge of the build-environment       *)
(*     document), os.Create and the JSON encoding (specification Spec).    *)
(*                                                                         *)
(* Strings that the code sorts (paths, digests, algorithm names) are       *)
(* sequences of byte values, so that sort.Strings is a real lexicographic  *)
(* sort.  Go pointers to pkg and file objects are entity names.            *)
(***************************************************************************)
EXTENDS Naturals, Integers, Sequences, FiniteSets, TLC

VARIABLES
    \* ---- WriteSBOM ----
    bom,            \* the root bom: [Packages, Files], sequences of entities
    graph,          \* entity -> its Relationships list
    epochEnv,       \* the SOURCE_DATE_EPOCH environment variable
    buildImageSBOM, \* the file sbom-<arch>.spdx.json under spec.BuildImageSBOM
    buildEnvFile,   \* the file at spec.BuildEnvSBOM()
    copyErr,        \* CopyBuildSBOM's return value
    preFile,        \* what was at spec.PackageSBOM() when WriteSBOM was called
    sbomFile,       \* what is at spec.PackageSBOM() now
    spdxDoc,        \* the spdx.Document being produced
    crashed,        \* the lowering exhausted the goroutine stack
    pc,             \* position in WriteSBOM
    err,            \* WriteSBOM's return value once pc = "done"
    \* ---- ScanFiles ----
    tree,           \* the directory: path -> kind of entry
    tickets,        \* how many tickets the concurrency limiter holds
    fileList,       \* getDirectoryTree's result
    submitted,      \* how many paths of fileList were handed to g.Execute
    units,          \* path -> state of its digesting unit
    files,          \* the sync.Map: set of stored file objects
    firstError,     \* the limiter's first-error slot
    firstStoreCall, \* history: the argument of the first FirstErrorStore call
    dirPackage,     \* the package being scanned: [FilesAnalyzed, Relationships]
    spc,            \* position in ScanFiles
    scanErr         \* ScanFiles' return value once spc = "returned"

writeVars == <<bom, graph, epochEnv, buildImageSBOM, buildEnvFile, copyErr,
               preFile, sbomFile, spdxDoc, crashed, pc, err>>
scanVars == <<tree, tickets, fileList, submitted, units, files, firstError,
              firstStoreCall, dirPackage, spc, scanErr>>
vars == <<bom, graph, epochEnv, buildImageSBOM, buildEnvFile, copyErr, preFile,
          sbomFile, spdxDoc, crashed, pc, err, tree, tickets, fileList,
          submitted, units, files, firstError, firstStoreCall, dirPackage,
          spc, scanErr>>

(***************************************************************************)
(* Bounds of the model.                                                    *)
(***************************************************************************)
\* relationships recorded in an input entity graph, all entities together
MaxRels == 2
\* external references carried by a package of the build-environment document
MaxRefs == 2
\* frames of addPackage/addFile the goroutine stack holds before it overflows
MaxDepth == 7
\* the most tickets a concurrency limiter of the model holds
ConcurrencyLimit == 3

(***************************************************************************)
(* Strings as byte sequences, and sort.Strings.                            *)
(***************************************************************************)
EmptyString == <<>>

RECURSIVE StrLess(_, _)
StrLess(a, b) ==
    IF a = <<>> THEN b # <<>>
    ELSE IF b = <<>> THEN FALSE
    ELSE IF Head(a) # Head(b) THEN Head(a) < Head(b)
    ELSE StrLess(Tail(a), Tail(b))

RECURSIVE InsertSorted(_, _)
InsertSorted(x, s) ==
    IF s = <<>> THEN <<x>>
    ELSE IF StrLess(x, Head(s)) THEN <<x>> \o s
    ELSE <<Head(s)>> \o InsertSorted(x, Tail(s))

RECURSIVE SortStrings(_)
SortStrings(s) ==
    IF s = <<>> THEN <<>> ELSE InsertSorted(Head(s), SortStrings(Tail(s)))

RECURSIVE Join(_)
Join(ss) == IF ss = <<>> THEN <<>> ELSE Head(ss) \o Join(Tail(ss))

\* the orders in which a range over a Go map may visit the keys S: every
\* enumeration of S without repetition
KeyOrders(S) ==
    {o \in [1..Cardinality(S) -> S] :
        \A i, j \in 1..Cardinality(S) : i # j => o[i] # o[j]}

Range(s) == {s[i] : i \in 1..Len(s)}

\* "SHA1", "SHA256", "SHA512" in ASCII
SHA1 == <<83, 72, 65, 49>>
SHA256 == <<83, 72, 65, 50, 53, 54>>
SHA512 == <<83, 72, 65, 53, 49, 50>>

(***************************************************************************)
(* The entity model: packages, files, relationships.                       *)
(***************************************************************************)
Pkgs == {"P", "Q"}
Files == {"F", "G", "H"}
Entities == Pkgs \cup Files
RelTypes == {"CONTAINS", "DEPENDS_ON"}

\* The identifier of an entity: a kind prefix and the entity's name.
ID(e) == IF e \in Pkgs THEN <<"SPDXRef-Package", e>> ELSE <<"SPDXRef-File", e>>

\* file.Checksums.  F and G carry a SHA1 digest ("bb" and "aa"), H was
\* recorded without one.
FileChecksums(f) ==
    CASE f = "F" -> (SHA1 :> <<98, 98>>) @@ (SHA256 :> <<49>>)
      [] f = "G" -> (SHA1 :> <<97, 97>>) @@ (SHA256 :> <<50>>)
      [] OTHER   -> (SHA256 :> <<51>>)

\* pkg.Checksums, pkg.Namespace, pkg.Arch, pkg.Version
PkgChecksums(p) == IF p = "P" THEN (SHA256 :> <<52>>) ELSE << >>
PkgNamespace(p) == IF p = "P" THEN "wolfi" ELSE ""
PkgArch(p) == IF p = "P" THEN "x86_64" ELSE ""
PkgVersion(p) == "1.0"

NOASSERTION == "NOASSERTION"

(***************************************************************************)
(* Package URLs (github.com/package-url/packageurl-go).  A locator is the  *)
(* sequence of its components: scheme, type, then namespace/name/...       *)
(***************************************************************************)
TypeOCI == "oci"

PurlToString(type, namespace, name, version, arch) ==
    <<"pkg", type, namespace, name, version>>
        \o (IF arch # "" THEN <<"arch=" , arch>> ELSE <<>>)

\* purl.FromString: the scheme must be "pkg", and a type and a name follow.
PurlFromString(locator) ==
    IF Len(locator) >= 3 /\ locator[1] = "pkg" /\ locator[2] # ""
       /\ locator[Len(locator)] # ""
    THEN [ok |-> TRUE, Type |-> locator[2]]
    ELSE [ok |-> FALSE, Type |-> ""]

(***************************************************************************)
(* computeVerificationCode.  SHA-1 is modelled as an injective tagging:    *)
(* the digest of d is a tag byte followed by d, so two inputs have the     *)
(* same digest only if they are equal, and no digest is the empty string.  *)
(***************************************************************************)
Sha1Hex(data) == <<35>> \o data

computeVerificationCode(hashList) == Sha1Hex(Join(SortStrings(hashList)))

NoVerificationCode == [present |-> FALSE, Value |-> <<>>, ExcludedFiles |-> <<>>]

\* The {algorithm, value} lists a Checksums map can give: the keys are
\* collected in any iteration order of the map and then sorted.
ChecksumLists(cs) ==
    {LET algos == SortStrings(o)
     IN  [i \in 1..Len(algos) |->
             [Algorithm |-> algos[i], Value |-> cs[algos[i]]]] :
        o \in KeyOrders(DOMAIN cs)}

\* The list built from a Checksums map; the sort leaves one outcome whatever
\* the iteration order was.
ChecksumList(cs) == CHOOSE l \in ChecksumLists(cs) : TRUE

(***************************************************************************)
(* Document Builder: addPackage, addFile, sbomHasRelationship.             *)
(* The lowering works on st = [doc, crashed]: the document built so far    *)
(* and whether the recursion ran out of stack.                             *)
(***************************************************************************)
SpdxRelationship(rel) ==
    [Element |-> ID(rel.Source), Type |-> rel.Type, Related |-> ID(rel.Target)]

\* the catalog check comparing the element with the target's id
sbomHasRelationshipWrongElement(doc, bomRel) ==
    \E i \in 1..Len(doc.Relationships) :
        /\ doc.Relationships[i].Element = ID(bomRel.Target)
        /\ doc.Relationships[i].Related = ID(bomRel.Target)
        /\ doc.Relationships[i].Type = bomRel.Type

sbomHasRelationship(doc, bomRel) ==
    \E i \in 1..Len(doc.Relationships) :
        /\ doc.Relationships[i].Element = ID(bomRel.Source)
        /\ doc.Relationships[i].Related = ID(bomRel.Target)
        /\ doc.Relationships[i].Type = bomRel.Type

\* The file targets of a relationship list, in recorded order (lines 273-282:
\* the type assertion rel.Target.(*file); the relationship's Type is not read).
FileTargets(rels) ==
    LET toFiles == SelectSeq(rels, LAMBDA r : r.Target \in Files)
    IN  [i \in 1..Len(toFiles) |-> toFiles[i].Target]

HashList(rels) ==
    LET hashed == SelectSeq(FileTargets(rels),
                            LAMBDA f : SHA1 \in DOMAIN FileChecksums(f))
    IN  [i \in 1..Len(hashed) |-> FileChecksums(hashed[i])[SHA1]]

Excluded(rels) ==
    LET bare == SelectSeq(FileTargets(rels),
                          LAMBDA f : SHA1 \notin DOMAIN FileChecksums(f))
    IN  [i \in 1..Len(bare) |-> ID(bare[i])]

\* The spdx.Package record addPackage builds for p (lines 240-310).
SpdxPackage(p, rels) ==
    LET targets == FileTargets(rels)
        verificationCode == computeVerificationCode(HashList(rels))
        hasCode == verificationCode # EmptyString
    IN  [ID               |-> ID(p),
         Name             |-> p,
         Version          |-> PkgVersion(p),
         FilesAnalyzed    |-> hasCode,
         HasFiles         |-> [i \in 1..Len(targets) |-> ID(targets[i])],
         Checksums        |-> ChecksumList(PkgChecksums(p)),
         ExternalRefs     |->
             IF PkgNamespace(p) # ""
             THEN << [Category |-> "PACKAGE_MANAGER",
                      Locator  |-> PurlToString("apk", PkgNamespace(p), p,
                                                PkgVersion(p), PkgArch(p)),
                      Type     |-> "purl"] >>
             ELSE <<>>,
         VerificationCode |->
             IF hasCode
             THEN [present |-> TRUE, Value |-> verificationCode,
                   ExcludedFiles |-> Excluded(rels)]
             ELSE NoVerificationCode]

\* The spdx.File record addFile builds for f (lines 334-353).
SpdxFile(f) ==
    [ID               |-> ID(f),
     Name             |-> f,
     LicenseConcluded |-> NOASSERTION,
     Checksums        |-> ChecksumList(FileChecksums(f))]

RECURSIVE addPackage(_, _, _), addFile(_, _, _)
RECURSIVE addPackageRelated(_, _, _, _), addFileRelated(_, _, _, _)

\* lines 315-330: the loop over p.Relationships, from index i on
addPackageRelated(st, p, i, depth) ==
    IF st.crashed \/ i > Len(graph[p]) THEN st
    ELSE LET rel == graph[p][i] IN
         IF sbomHasRelationship(st.doc, rel)
         THEN addPackageRelated(st, p, i + 1, depth)
         ELSE LET lowered == IF rel.Target \in Files
                             THEN addFile(st, rel.Target, depth + 1)
                             ELSE addPackage(st, rel.Target, depth + 1)
                  emitted == IF lowered.crashed THEN lowered
                             ELSE [lowered EXCEPT !.doc.Relationships =
                                       Append(@, SpdxRelationship(rel))]
              IN  addPackageRelated(emitted, p, i + 1, depth)

\* lines 358-368: the loop over f.Relationships; no relationship is appended
addFileRelated(st, f, i, depth) ==
    IF st.crashed \/ i > Len(graph[f]) THEN st
    ELSE LET rel == graph[f][i] IN
         IF sbomHasRelationship(st.doc, rel)
         THEN addFileRelated(st, f, i + 1, depth)
         ELSE LET lowered == IF rel.Target \in Files
                             THEN addFile(st, rel.Target, depth + 1)
                             ELSE addPackage(st, rel.Target, depth + 1)
              IN  addFileRelated(lowered, f, i + 1, depth)

addPackage(st, p, depth) ==
    IF st.crashed THEN st
    ELSE IF depth > MaxDepth THEN [st EXCEPT !.crashed = TRUE]
    ELSE addPackageRelated(
             [st EXCEPT !.doc.Packages = Append(@, SpdxPackage(p, graph[p]))],
             p, 1, depth)

addFile(st, f, depth) ==
    IF st.crashed THEN st
    ELSE IF depth > MaxDepth THEN [st EXCEPT !.crashed = TRUE]
    ELSE addFileRelated(
             [st EXCEPT !.doc.Files = Append(@, SpdxFile(f))],
             f, 1, depth)

(***************************************************************************)
(* CopyBuildSBOM.                                                          *)
(***************************************************************************)
\* a file of the build: missing, present but not a JSON document, or a JSON
\* document with its packages
NoBuildFile == [exists |-> FALSE, json |-> FALSE, Packages |-> <<>>]
GarbageBuildFile == [exists |-> TRUE, json |-> FALSE, Packages |-> <<>>]
JSONBuildFile(pkgs) == [exists |-> TRUE, json |-> TRUE, Packages |-> pkgs]

\* lines 94-105: os.ReadFile of the build image's SBOM, then os.WriteFile to
\* spec.BuildEnvSBOM().  A failing os.WriteFile either could not open the
\* target, which stays as it was, or stopped in the middle of the write,
\* which leaves a truncated file that is no JSON document.
CopyBuildSBOM ==
    /\ pc = "copy"
    /\ IF ~buildImageSBOM.exists
       THEN /\ copyErr' = "reading build environment SBOM"
            /\ UNCHANGED buildEnvFile
       ELSE \E outcome \in {"written", "not opened", "short write"} :
               /\ buildEnvFile' =
                      CASE outcome = "written"     -> buildImageSBOM
                        [] outcome = "not opened"  -> buildEnvFile
                        [] outcome = "short write" -> GarbageBuildFile
               /\ copyErr' = IF outcome = "written" THEN "nil"
                             ELSE "writing build sbom to apk"
    /\ pc' = "start"
    /\ UNCHANGED <<buildImageSBOM, bom, graph, epochEnv, preFile, sbomFile,
                   spdxDoc, crashed, err>>
    /\ UNCHANGED scanVars

(***************************************************************************)
(* buildDocumentSPDX.                                                      *)
(***************************************************************************)
Digits == <<"0", "1", "2", "3", "4", "5", "6", "7", "8", "9">>
IsDigit(c) == \E i \in 1..Len(Digits) : Digits[i] = c
DigitValue(c) == (CHOOSE i \in 1..Len(Digits) : Digits[i] = c) - 1

\* the decimal digits of math.MaxInt64 and of the magnitude of math.MinInt64
MaxInt64 ==
    <<"9", "2", "2", "3", "3", "7", "2", "0", "3", "6", "8", "5", "4", "7", "7",
      "5", "8", "0", "7">>
MinInt64Magnitude ==
    <<"9", "2", "2", "3", "3", "7", "2", "0", "3", "6", "8", "5", "4", "7", "7",
      "5", "8", "0", "8">>

\* An int64 is kept as its sign and the decimal digits of its magnitude
\* without leading zeros; ZeroInt is 0.
ZeroInt == [neg |-> FALSE, digits |-> <<"0">>]

RECURSIVE StripZeros(_)
StripZeros(ds) ==
    IF Len(ds) > 1 /\ Head(ds) = "0" THEN StripZeros(Tail(ds)) ELSE ds

\* a <= b for the digits of two magnitudes without leading zeros
MagnitudeAtMost(a, b) ==
    \/ Len(a) < Len(b)
    \/ /\ Len(a) = Len(b)
       /\ \/ a = b
          \/ \E i \in 1..Len(a) :
                /\ \A j \in 1..(i - 1) : a[j] = b[j]
                /\ DigitValue(a[i]) < DigitValue(b[i])

\* strconv.ParseInt(v, 10, 64) on a string given as its characters: a syntax
\* error unless v is an optional sign and at least one digit, a range error
\* when the value lies outside [-2^63, 2^63 - 1].
ParseInt(v) ==
    LET signed == v # <<>> /\ Head(v) \in {"+", "-"}
        neg == signed /\ Head(v) = "-"
        body == IF signed THEN Tail(v) ELSE v
    IN  IF body = <<>> \/ \E i \in 1..Len(body) : ~IsDigit(body[i])
        THEN [ok |-> FALSE, value |-> ZeroInt]
        ELSE IF ~MagnitudeAtMost(StripZeros(body),
                                 IF neg THEN MinInt64Magnitude ELSE MaxInt64)
        THEN [ok |-> FALSE, value |-> ZeroInt]
        ELSE [ok |-> TRUE,
              value |-> [neg    |-> neg /\ StripZeros(body) # <<"0">>,
                         digits |-> StripZeros(body)]]

\* spec.PackageName and spec.PackageVersion
SpecPackageName == "P"
SpecPackageVersion == "1.0"

\* The document of lines 396-415, created at sbomTime.
EmptyDocument(sbomTime) ==
    [ID                |-> <<"SPDXRef-DOCUMENT", "apk", SpecPackageName,
                             SpecPackageVersion>>,
     Name              |-> <<"apk", SpecPackageName, SpecPackageVersion>>,
     Version           |-> "SPDX-2.3",
     Created           |-> sbomTime,
     DataLicense       |-> "CC0-1.0",
     DocumentDescribes |-> <<>>,
     Files             |-> <<>>,
     Packages          |-> <<>>,
     Relationships     |-> <<>>]

WallClock == [from |-> "time.Now", sec |-> ZeroInt]

\* lines 385-394: the creation time, or a parse failure
SbomTime ==
    IF ~epochEnv.set THEN [ok |-> TRUE, time |-> WallClock]
    ELSE LET parsed == ParseInt(epochEnv.value)
         IN  [ok |-> parsed.ok,
              time |-> [from |-> "SOURCE_DATE_EPOCH", sec |-> parsed.value]]

RECURSIVE lowerPackages(_, _), lowerFiles(_, _)

\* lines 417-420
lowerPackages(st, i) ==
    IF st.crashed \/ i > Len(bom.Packages) THEN st
    ELSE lowerPackages(
             addPackage([st EXCEPT !.doc.DocumentDescribes =
                                       Append(@, ID(bom.Packages[i]))],
                        bom.Packages[i], 1),
             i + 1)

\* lines 422-425
lowerFiles(st, i) ==
    IF st.crashed \/ i > Len(bom.Files) THEN st
    ELSE lowerFiles(
             addFile([st EXCEPT !.doc.DocumentDescribes =
                                    Append(@, ID(bom.Files[i]))],
                     bom.Files[i], 1),
             i + 1)

Lowered(sbomTime) ==
    lowerFiles(lowerPackages([doc |-> EmptyDocument(sbomTime), crashed |-> FALSE],
                             1), 1)

NoDocument == EmptyDocument(WallClock)

\* WriteSBOM line 486-489: buildDocumentSPDX and its error return.  A lowering
\* that recurses without end exhausts the stack, which ends the process.
buildDocumentSPDX ==
    /\ pc = "start"
    /\ IF ~SbomTime.ok
       THEN /\ pc' = "done"
            /\ err' = "building SPDX document: failed to parse SOURCE_DATE_EPOCH"
            /\ UNCHANGED <<spdxDoc, crashed>>
       ELSE LET st == Lowered(SbomTime.time)
            IN  IF st.crashed
                THEN /\ pc' = "stack overflow"
                     /\ crashed' = TRUE
                     /\ UNCHANGED <<spdxDoc, err>>
                ELSE /\ pc' = "built"
                     /\ spdxDoc' = st.doc
                     /\ UNCHANGED <<crashed, err>>
    /\ UNCHANGED <<buildImageSBOM, copyErr, bom, graph, epochEnv,
                   buildEnvFile, preFile, sbomFile>>
    /\ UNCHANGED scanVars

(***************************************************************************)
(* ParseBuildSBOM.                                                         *)
(***************************************************************************)
\* lines 450-463: p once for every purl reference of p that parses and is
\* not of the OCI type
MatchesOf(p) ==
    LET hits == SelectSeq(p.ExternalRefs,
                    LAMBDA e : /\ e.Type = "purl"
                               /\ PurlFromString(e.Locator).ok
                               /\ PurlFromString(e.Locator).Type # TypeOCI)
    IN  [i \in 1..Len(hits) |-> p]

RECURSIVE NonOCIPackages(_)
\* lines 448-466: ret
NonOCIPackages(pkgs) ==
    IF pkgs = <<>> THEN <<>>
    ELSE MatchesOf(Head(pkgs)) \o NonOCIPackages(Tail(pkgs))

\* lines 468-479
Merged(doc, ret) ==
    LET rootId == doc.DocumentDescribes[1]
    IN  [doc EXCEPT
            !.Packages = @ \o ret,
            !.Relationships = @ \o
                [i \in 1..Len(ret) |-> [Element |-> ret[i].ID,
                                         Type    |-> "BUILD_DEPENDENCY_OF",
                                         Related |-> rootId]]]

\* WriteSBOM lines 491-494 with ParseBuildSBOM, lines 431-482
ParseBuildSBOM ==
    /\ pc = "built"
    /\ IF ~buildEnvFile.exists
       THEN /\ pc' = "done"
            /\ err' = "parsing build environment SBOM: opening build environment SBOM"
            /\ UNCHANGED spdxDoc
       ELSE IF ~buildEnvFile.json
       THEN /\ pc' = "done"
            /\ err' = "parsing build environment SBOM: unmarshaling build time SBOM"
            /\ UNCHANGED spdxDoc
       ELSE IF Len(spdxDoc.DocumentDescribes) = 0
       THEN /\ pc' = "done"
            /\ err' = "parsing build environment SBOM: apk package sbom has no root elements"
            /\ UNCHANGED spdxDoc
       ELSE /\ pc' = "merged"
            /\ spdxDoc' = Merged(spdxDoc, NonOCIPackages(buildEnvFile.Packages))
            /\ UNCHANGED err
    /\ UNCHANGED <<buildImageSBOM, copyErr, bom, graph, epochEnv,
                   buildEnvFile, preFile, sbomFile, crashed>>
    /\ UNCHANGED scanVars

(***************************************************************************)
(* The Writer: os.Create and the JSON encoder.                             *)
(***************************************************************************)
\* lines 496-499: os.Create makes the file or truncates it, or fails and
\* leaves the path as it was.
CreateFile ==
    /\ pc = "merged"
    /\ \E created \in BOOLEAN :
          IF created
          THEN /\ sbomFile' = "empty"
               /\ pc' = "created"
               /\ UNCHANGED err
          ELSE /\ pc' = "done"
               /\ err' = "opening SBOM file for writing"
               /\ UNCHANGED sbomFile
    /\ UNCHANGED <<buildImageSBOM, copyErr, bom, graph, epochEnv,
                   buildEnvFile, preFile, spdxDoc, crashed>>
    /\ UNCHANGED scanVars

\* lines 501-509: Encode marshals the document and writes it to the open
\* file; the write may fail after part of the bytes went out.
Encode ==
    /\ pc = "created"
    /\ \E outcome \in {"written", "short write", "write error"} :
          /\ sbomFile' = CASE outcome = "written"     -> "complete"
                            [] outcome = "short write" -> "partial"
                            [] OTHER                   -> "empty"
          /\ err' = IF outcome = "written" THEN "nil" ELSE "encoding spdx sbom"
    /\ pc' = "done"
    /\ UNCHANGED <<buildImageSBOM, copyErr, bom, graph, epochEnv,
                   buildEnvFile, preFile, spdxDoc, crashed>>
    /\ UNCHANGED scanVars

(***************************************************************************)
(* ScanFiles.                                                              *)
(***************************************************************************)
\* an error value; Nil is Go's nil error
Nil == [kind |-> "nil", algo |-> <<>>, path |-> <<>>]
HashError(algo, path) == [kind |-> "hashing", algo |-> algo, path |-> path]
AbsError ==
    [kind |-> "getting absolute directory path", algo |-> <<>>, path |-> <<>>]
TreeError == [kind |-> "building directory tree", algo |-> <<>>, path |-> <<>>]
LimiterError ==
    [kind |-> "waiting for limiter to finish", algo |-> <<>>, path |-> <<>>]

\* "/a", "/ab", "/b"
Paths == {<<47, 97>>, <<47, 97, 98>>, <<47, 98>>}
EntryKinds == {"absent", "file", "unreadable file", "symlink", "dir"}
Algorithms == {SHA1, SHA256, SHA512}

\* the digest hash.XForFile returns for a readable file
FileDigest(algo, path) == algo \o path

\* getDirectoryTree, lines 513-535: the regular files in the order of the
\* walk (WalkDir visits a directory's entries in lexical order), sorted once
\* more.
getDirectoryTree(t) ==
    LET regular == {p \in DOMAIN t.entries :
                        t.entries[p] \in {"file", "unreadable file"}}
        walked == CHOOSE o \in KeyOrders(regular) :
                      \A i, j \in 1..Len(o) : i < j => StrLess(o[i], o[j])
    IN  SortStrings(walked)

\* limiter.FirstErrorStore: keeps the error only if the slot is empty
FirstErrorStore(slot, e) == IF slot = Nil THEN e ELSE slot

\* lines 134-145, and the limiter and map of lines 147-148.  filepath.Abs
\* fails when the working directory cannot be resolved, getDirectoryTree
\* when the directory cannot be walked.
ScanStart ==
    /\ spc = "start"
    /\ IF ~tree.cwd
       THEN /\ spc' = "returned"
            /\ scanErr' = AbsError
            /\ UNCHANGED <<fileList, units, dirPackage>>
       ELSE IF ~tree.root
       THEN /\ spc' = "returned"
            /\ scanErr' = TreeError
            /\ UNCHANGED <<fileList, units, dirPackage>>
       ELSE /\ spc' = "submitting"
            /\ fileList' = getDirectoryTree(tree)
            /\ units' = [p \in Range(getDirectoryTree(tree)) |->
                            [state |-> "waiting", todo |-> Algorithms,
                             Checksums |-> << >>]]
            /\ dirPackage' = [dirPackage EXCEPT !.FilesAnalyzed = TRUE]
            /\ UNCHANGED scanErr
    /\ UNCHANGED <<tree, tickets, submitted, files, firstError,
                   firstStoreCall>>
    /\ UNCHANGED writeVars

\* the units holding a ticket: started, and not yet at the end of the job
Running == {p \in DOMAIN units : units[p].state \in {"running", "stored"}}

\* lines 149-176: g.Execute takes a ticket, blocking while none is free,
\* and starts the unit of the next path
Execute ==
    /\ spc = "submitting"
    /\ submitted < Len(fileList)
    /\ Cardinality(Running) < tickets
    /\ submitted' = submitted + 1
    /\ units' = [units EXCEPT ![fileList[submitted + 1]].state = "running"]
    /\ UNCHANGED <<tree, tickets, fileList, files, firstError, firstStoreCall,
                   dirPackage, spc, scanErr>>
    /\ UNCHANGED writeVars

\* lines 161-172: one round of the loop over the three hash functions, taken
\* in the map's iteration order
HashFile(path, algo) ==
    /\ path \in DOMAIN units
    /\ units[path].state = "running"
    /\ algo \in units[path].todo
    /\ LET failed == tree.entries[path] = "unreadable file"
           csum == IF failed THEN EmptyString ELSE FileDigest(algo, path)
       IN  /\ units' = [units EXCEPT
                            ![path].todo = @ \ {algo},
                            ![path].Checksums = (algo :> csum) @@ @]
           /\ firstError' = IF failed
                             THEN FirstErrorStore(firstError, HashError(algo, path))
                             ELSE firstError
           /\ firstStoreCall' = IF failed /\ firstStoreCall = Nil
                                 THEN HashError(algo, path) ELSE firstStoreCall
    /\ UNCHANGED <<tree, tickets, fileList, submitted, files, dirPackage, spc,
                   scanErr>>
    /\ UNCHANGED writeVars

\* line 174: the file goes into the map.  files lists the stored entries in
\* arrival order.
StoreFile(path) ==
    /\ path \in DOMAIN units
    /\ units[path].state = "running"
    /\ units[path].todo = {}
    /\ files' = Append(files, [Name |-> path,
                               Checksums |-> units[path].Checksums,
                               Relationships |-> <<>>])
    /\ units' = [units EXCEPT ![path].state = "stored"]
    /\ UNCHANGED <<tree, tickets, fileList, submitted, firstError,
                   firstStoreCall, dirPackage, spc, scanErr>>
    /\ UNCHANGED writeVars

\* lines 175-176: the job returns and the limiter takes its ticket back
ReturnTicket(path) ==
    /\ path \in DOMAIN units
    /\ units[path].state = "stored"
    /\ units' = [units EXCEPT ![path].state = "done"]
    /\ UNCHANGED <<tree, tickets, fileList, submitted, files, firstError,
                   firstStoreCall, dirPackage, spc, scanErr>>
    /\ UNCHANGED writeVars

\* what the limiter's WaitAndClose returns: it waits for the tickets,
\* closes the ticket channel and returns nil
WaitAndCloseResult == Nil

\* lines 178-180: WaitAndClose returns once every ticket is back; a non-nil
\* result ends ScanFiles
WaitAndClose ==
    /\ spc = "submitting"
    /\ submitted = Len(fileList)
    /\ Running = {}
    /\ IF WaitAndCloseResult # Nil
       THEN /\ spc' = "returned"
            /\ scanErr' = LimiterError
       ELSE /\ spc' = "drained"
            /\ UNCHANGED scanErr
    /\ UNCHANGED <<tree, tickets, fileList, submitted, units, files, firstError,
                   firstStoreCall, dirPackage>>
    /\ UNCHANGED writeVars

\* the key list left as files.Range handed it over
PathListUnsorted(ranged) == ranged

\* lines 188-194: pathList after sort.Strings
PathList(ranged) == SortStrings(ranged)

\* the orders in which files.Range may visit the stored keys
RangeOrders ==
    {o \in [1..Len(files) -> {files[i].Name : i \in 1..Len(files)}] :
        \A i, j \in 1..Len(files) : i # j => o[i] # o[j]}

\* files.Load
Load(path) == files[CHOOSE i \in 1..Len(files) : files[i].Name = path]

\* the error check of lines 182-184 left out
CollectedIgnoringError(slot, rels, ranged) ==
    LET pathList == PathList(ranged)
    IN  [err  |-> Nil,
         rels |-> rels \o [i \in 1..Len(pathList) |->
                              [Source |-> "dirPackage", Type |-> "CONTAINS",
                               Target |-> Load(pathList[i])]]]

\* lines 182-217: the first error, or the relationships of the sorted paths
Collected(slot, rels, ranged) ==
    IF slot # Nil THEN [err |-> slot, rels |-> rels]
    ELSE LET pathList == PathList(ranged)
         IN  [err  |-> Nil,
              rels |-> rels \o [i \in 1..Len(pathList) |->
                                   [Source |-> "dirPackage", Type |-> "CONTAINS",
                                    Target |-> Load(pathList[i])]]]

Collect ==
    /\ spc = "drained"
    /\ \E ranged \in RangeOrders :
          LET out == Collected(firstError, dirPackage.Relationships, ranged)
          IN  /\ scanErr' = out.err
              /\ dirPackage' = [dirPackage EXCEPT !.Relationships = out.rels]
    /\ spc' = "returned"
    /\ UNCHANGED <<tree, tickets, fileList, submitted, units, files, firstError,
                   firstStoreCall>>
    /\ UNCHANGED writeVars

(***************************************************************************)
(* The inputs of WriteSBOM.                                                *)
(***************************************************************************)
\* Relationships that may be recorded on entity o.  Source is a field of the
\* relationship: it may name another entity than the one recording it.
SourcesOn(o) == IF o = "P" THEN {"P", "Q", "F"} ELSE {o}

RelsOn(o) ==
    {[Source |-> s, Type |-> t, Target |-> x] :
        s \in SourcesOn(o), t \in RelTypes, x \in Entities}

GraphOf(rp, rq, rf) ==
    [e \in Entities |-> CASE e = "P" -> rp [] e = "Q" -> rq [] e = "F" -> rf
                          [] OTHER -> <<>>]

\* the graph ScanFiles leaves: P contains F and G
ScannedGraph ==
    GraphOf(<< [Source |-> "P", Type |-> "CONTAINS", Target |-> "F"],
               [Source |-> "P", Type |-> "CONTAINS", Target |-> "G"] >>,
            <<>>, <<>>)

RootLists ==
    { [Packages |-> <<"P">>, Files |-> <<>>],
      [Packages |-> <<"P", "Q">>, Files |-> <<>>],
      [Packages |-> <<"P">>, Files |-> <<"F">>] }

EmptyBom == [Packages |-> <<>>, Files |-> <<>>]

\* External references of a build-environment package.
RefChoices ==
    { [Category |-> "PACKAGE_MANAGER", Type |-> "purl",
       Locator |-> <<"pkg", "apk", "alpine", "busybox", "1.36">>],
      [Category |-> "PACKAGE_MANAGER", Type |-> "purl",
       Locator |-> <<"pkg", "oci", "index.docker.io", "alpine", "3.18">>],
      [Category |-> "PACKAGE_MANAGER", Type |-> "purl",
       Locator |-> <<"apk", "busybox">>],
      [Category |-> "SECURITY", Type |-> "cpe23Type",
       Locator |-> <<"cpe", "2.3", "busybox">>] }

RefLists == UNION {[1..n -> RefChoices] : n \in 0..MaxRefs}

BuildPackage(name, refs) ==
    [ID               |-> <<"SPDXRef-Package", name>>,
     Name             |-> name,
     Version          |-> "1.36",
     FilesAnalyzed    |-> FALSE,
     HasFiles         |-> <<>>,
     Checksums        |-> <<>>,
     ExternalRefs     |-> refs,
     VerificationCode |-> NoVerificationCode]

ImagePackage ==
    BuildPackage("image",
        << [Category |-> "PACKAGE_MANAGER", Type |-> "purl",
            Locator |-> <<"pkg", "oci", "index.docker.io", "alpine", "3.18">>] >>)

BuildPackageLists ==
    {<<>>} \cup {<<BuildPackage("busybox", refs)>> : refs \in RefLists}
           \cup {<<ImagePackage, BuildPackage("busybox", refs)>> : refs \in RefLists}

BuildEnvFiles ==
    {NoBuildFile, GarbageBuildFile} \cup {JSONBuildFile(l) : l \in BuildPackageLists}

EpochUnset == [set |-> FALSE, value |-> <<>>]
EpochValues ==
    {EpochUnset} \cup
    {[set |-> TRUE, value |-> v] :
        v \in {<<"1", "7">>, <<"-", "5">>, <<"+", "0", "7">>, <<"x">>,
               <<"1", "x">>, <<>>, MaxInt64, MinInt64Magnitude,
               <<"-">> \o MinInt64Magnitude}}

\* ScanFiles has not been called
ScanIdle ==
    /\ tree = [cwd |-> FALSE, root |-> FALSE, entries |-> << >>]
    /\ tickets = ConcurrencyLimit
    /\ fileList = <<>>
    /\ submitted = 0
    /\ units = << >>
    /\ files = <<>>
    /\ firstError = Nil
    /\ firstStoreCall = Nil
    /\ dirPackage = [FilesAnalyzed |-> FALSE, Relationships |-> <<>>]
    /\ spc = "idle"
    /\ scanErr = Nil

WriteStart ==
    /\ sbomFile = preFile
    /\ spdxDoc = NoDocument
    /\ crashed = FALSE
    /\ copyErr = "nil"
    /\ err = "nil"

\* entity graphs of at most MaxRels relationships, merged with one build
\* package; the build environment SBOM has been copied
InitGraphs ==
    /\ bom \in RootLists
    /\ \E nP \in 0..MaxRels : \E nQ \in 0..(MaxRels - nP) :
       \E nF \in 0..(MaxRels - nP - nQ) :
       \E rp \in [1..nP -> RelsOn("P")], rq \in [1..nQ -> RelsOn("Q")],
          rf \in [1..nF -> RelsOn("F")] :
          graph = GraphOf(rp, rq, rf)
    /\ epochEnv = EpochUnset
    /\ buildImageSBOM = JSONBuildFile(<<BuildPackage("busybox",
                           << CHOOSE r \in RefChoices : r.Locator[2] = "apk" >>)>>)
    /\ buildEnvFile = buildImageSBOM
    /\ preFile = "absent"
    /\ pc = "start"

\* the scanned package, or no package at all, in every environment, before
\* the build environment SBOM is copied
InitEnvironments ==
    /\ bom \in {EmptyBom, [Packages |-> <<"P">>, Files |-> <<>>]}
    /\ graph = ScannedGraph
    /\ epochEnv \in EpochValues
    /\ buildImageSBOM \in BuildEnvFiles
    /\ buildEnvFile = NoBuildFile
    /\ preFile \in {"absent", "old"}
    /\ pc = "copy"

Init ==
    /\ InitGraphs \/ InitEnvironments
    /\ WriteStart
    /\ ScanIdle

Next ==
    \/ CopyBuildSBOM
    \/ buildDocumentSPDX
    \/ ParseBuildSBOM
    \/ CreateFile
    \/ Encode

Spec == Init /\ [][Next]_vars

(***************************************************************************)
(* The specification of ScanFiles.                                         *)
(***************************************************************************)
\* WriteSBOM has not been called
WriteIdle ==
    /\ bom = EmptyBom
    /\ graph = GraphOf(<<>>, <<>>, <<>>)
    /\ epochEnv = EpochUnset
    /\ buildImageSBOM = NoBuildFile
    /\ buildEnvFile = NoBuildFile
    /\ copyErr = "nil"
    /\ preFile = "absent"
    /\ sbomFile = "absent"
    /\ spdxDoc = NoDocument
    /\ crashed = FALSE
    /\ pc = "idle"
    /\ err = "nil"

\* every directory over Paths, the missing directory, and a directory
\* named relative to a working directory that cannot be resolved; limiters
\* of one ticket up to a ticket for every path
ScanInit ==
    /\ \/ tree \in {[cwd |-> TRUE, root |-> TRUE, entries |-> e] :
                        e \in [Paths -> EntryKinds]}
       \/ tree = [cwd |-> TRUE, root |-> FALSE,
                  entries |-> [p \in Paths |-> "absent"]]
       \/ tree = [cwd |-> FALSE, root |-> TRUE,
                  entries |-> [p \in Paths |-> "unreadable file"]]
    /\ tickets \in 1..ConcurrencyLimit
    /\ fileList = <<>>
    /\ submitted = 0
    /\ units = << >>
    /\ files = <<>>
    /\ firstError = Nil
    /\ firstStoreCall = Nil
    /\ dirPackage = [FilesAnalyzed |-> FALSE, Relationships |-> <<>>]
    /\ spc = "start"
    /\ scanErr = Nil
    /\ WriteIdle

ScanNext ==
    \/ ScanStart
    \/ Execute
    \/ \E path \in Paths, algo \in Algorithms : HashFile(path, algo)
    \/ \E path \in Paths : StoreFile(path)
    \/ \E path \in Paths : ReturnTicket(path)
    \/ WaitAndClose
    \/ Collect

ScanSpec == ScanInit /\ [][ScanNext]_vars

(***************************************************************************)
(* Properties of WriteSBOM (specification Spec).                           *)
(***************************************************************************)
RecordIDs(doc) ==
    {doc.Packages[i].ID : i \in 1..Len(doc.Packages)}
        \cup {doc.Files[i].ID : i \in 1..Len(doc.Files)}

Occurrences(s, x) == Cardinality({i \in 1..Len(s) : s[i] = x})

\* C1: after buildDocumentSPDX and ParseBuildSBOM, the Element and the
\* Related id of every relationship record, and every id of
\* DocumentDescribes, is the ID of a record of Packages or Files.
C1_NoDanglingReferences ==
    pc = "merged" =>
        /\ \A i \in 1..Len(spdxDoc.Relationships) :
              /\ spdxDoc.Relationships[i].Element \in RecordIDs(spdxDoc)
              /\ spdxDoc.Relationships[i].Related \in RecordIDs(spdxDoc)
        /\ \A i \in 1..Len(spdxDoc.DocumentDescribes) :
              spdxDoc.DocumentDescribes[i] \in RecordIDs(spdxDoc)

\* a build package with a purl reference that parses and is not OCI
Qualifies(b) ==
    \E i \in 1..Len(b.ExternalRefs) :
        /\ b.ExternalRefs[i].Type = "purl"
        /\ PurlFromString(b.ExternalRefs[i].Locator).ok
        /\ PurlFromString(b.ExternalRefs[i].Locator).Type # TypeOCI

\* C2: after a successful ParseBuildSBOM a build-environment package is in
\* Packages exactly once if it qualifies and not at all otherwise, and an
\* appended package has exactly one BUILD_DEPENDENCY_OF relationship to
\* DocumentDescribes[0], however many purl references it carries.
C2_MergeFiltering ==
    pc = "merged" =>
        \A k \in 1..Len(buildEnvFile.Packages) :
            LET b == buildEnvFile.Packages[k]
                want == IF Qualifies(b) THEN 1 ELSE 0
            IN  /\ Occurrences(spdxDoc.Packages, b) = want
                /\ Occurrences(spdxDoc.Relationships,
                               [Element |-> b.ID, Type |-> "BUILD_DEPENDENCY_OF",
                                Related |-> spdxDoc.DocumentDescribes[1]]) = want

\* the SHA1 digests of the file targets of p's CONTAINS relationships
ContainsHashes(p) ==
    LET rels == SelectSeq(graph[p],
                    LAMBDA r : /\ r.Type = "CONTAINS" /\ r.Target \in Files
                               /\ SHA1 \in DOMAIN FileChecksums(r.Target))
    IN  [i \in 1..Len(rels) |-> FileChecksums(rels[i].Target)[SHA1]]

\* C3: the verification code of a lowered package is the digest of the
\* sorted SHA1 digests of exactly the file targets of its CONTAINS
\* relationships; targets of relationships of another kind do not count.
C3_VerificationCodeOverContains ==
    pc = "built" =>
        \A i \in 1..Len(spdxDoc.Packages) :
            LET r == spdxDoc.Packages[i] IN
            r.VerificationCode.present =>
                r.VerificationCode.Value
                    = Sha1Hex(Join(SortStrings(ContainsHashes(r.Name))))

\* C6: when WriteSBOM returns an error nothing was created or truncated at
\* the output path, and when it returns nil the complete document is there.
C6_AllOrNothingOutput ==
    pc = "done" =>
        /\ err # "nil" => sbomFile = preFile
        /\ err = "nil" => sbomFile = "complete"

\* C7: the document buildDocumentSPDX returns has no two relationship
\* records with the same (Element, Type, Related).
C7_NoDuplicateRelationships ==
    pc = "built" =>
        \A i, j \in 1..Len(spdxDoc.Relationships) :
            i # j => spdxDoc.Relationships[i] # spdxDoc.Relationships[j]

\* the same triple is recorded twice in the input graph, on one entity or
\* on two
RecordedTwice ==
    \E a, b \in Entities : \E i \in 1..Len(graph[a]) : \E j \in 1..Len(graph[b]) :
        /\ a # b \/ i # j
        /\ SpdxRelationship(graph[a][i]) = SpdxRelationship(graph[b][j])
        /\ \E k \in 1..Len(spdxDoc.Relationships) :
              spdxDoc.Relationships[k] = SpdxRelationship(graph[a][i])

\* a document was built from a graph recording one triple on P and on Q
C7_Witness ==
    /\ pc = "built"
    /\ RecordedTwice
    /\ \E i \in 1..Len(graph["P"]) : \E j \in 1..Len(graph["Q"]) :
          graph["P"][i] = graph["Q"][j]
    /\ Len(bom.Packages) = 2

\* C8: the document buildDocumentSPDX returns has no two Packages records
\* with the same ID and no two Files records with the same ID.
C8_NoDuplicateEntities ==
    pc = "built" =>
        /\ \A i, j \in 1..Len(spdxDoc.Packages) :
              i # j => spdxDoc.Packages[i].ID # spdxDoc.Packages[j].ID
        /\ \A i, j \in 1..Len(spdxDoc.Files) :
              i # j => spdxDoc.Files[i].ID # spdxDoc.Files[j].ID

\* C9: a lowered package carries a verification code, and is flagged
\* files-analyzed, only when a file target of it contributes a SHA1 digest.
C9_VerificationCodePresence ==
    pc = "built" =>
        \A i \in 1..Len(spdxDoc.Packages) :
            LET r == spdxDoc.Packages[i] IN
            (r.VerificationCode.present \/ r.FilesAnalyzed) =>
                \E k \in 1..Len(graph[r.Name]) :
                    /\ graph[r.Name][k].Target \in Files
                    /\ SHA1 \in DOMAIN FileChecksums(graph[r.Name][k].Target)

\* C10: buildDocumentSPDX terminates on every finite entity graph, cyclic
\* ones included: the lowering never recurses until the stack is exhausted.
C10_LoweringTerminates == pc # "stack overflow"

(***************************************************************************)
(* Properties of ScanFiles (specification ScanSpec).                       *)
(***************************************************************************)
RegularFiles ==
    {p \in Paths : tree.entries[p] \in {"file", "unreadable file"}}

AllUnitsCompleted ==
    /\ submitted = Len(fileList)
    /\ \A p \in DOMAIN units : units[p].state = "done"

\* C4: whatever the interleaving of the digesting units, a ScanFiles call
\* that returns nil has appended exactly one CONTAINS relationship per
\* regular file of the tree (no symlink, no directory), in strictly
\* ascending path order; and nothing is appended before every submitted
\* unit has completed.
C4_ScanOrdering ==
    LET rels == dirPackage.Relationships IN
    /\ (spc = "returned" /\ scanErr = Nil) =>
          /\ {rels[i].Target.Name : i \in 1..Len(rels)} = RegularFiles
          /\ \A i \in 1..Len(rels) :
                rels[i].Type = "CONTAINS" /\ rels[i].Source = "dirPackage"
          /\ \A i, j \in 1..Len(rels) :
                i < j => StrLess(rels[i].Target.Name, rels[j].Target.Name)
    /\ rels # <<>> => (spc = "returned" /\ AllUnitsCompleted)

\* the scan returned nil for three files whose units finished in another
\* order than the path order
C4_Witness ==
    /\ spc = "returned"
    /\ scanErr = Nil
    /\ Len(dirPackage.Relationships) = 3
    /\ StrLess(files[2].Name, files[1].Name)

\* the units that failed to hash their file
FailedUnits ==
    {p \in DOMAIN units :
        \E a \in DOMAIN units[p].Checksums : units[p].Checksums[a] = EmptyString}

\* C5: when a digesting unit failed to hash a file, ScanFiles returns the
\* first error any unit stored, returns only after every submitted unit
\* has run to completion, and appends no relationship.
C5_FirstErrorCapture ==
    (spc = "returned" /\ FailedUnits # {})
        => /\ scanErr # Nil
           /\ scanErr = firstStoreCall
           /\ AllUnitsCompleted
           /\ \A p \in RegularFiles : \E i \in 1..Len(files) : files[i].Name = p
           /\ dirPackage.Relationships = <<>>

\* the scan returned an error, and the unit of a readable file completed
\* after the unit that failed first
C5_Witness ==
    /\ spc = "returned"
    /\ scanErr.kind = "hashing"
    /\ Len(files) = 3
    /\ tree.entries[files[3].Name] = "file"
    /\ tree.entries[files[1].Name] = "unreadable file"
====
